---- MODULE Spec2Model ----
(***************************************************************************)
(* Audio summaries (tensorboard/plugins/audio/summary.py): the immediate   *)
(* builder pb and the deferred builder op, the latter followed by the      *)
(* evaluation of the summary op it returns.  One behaviour is one argument *)
(* tuple given first to pb and then, unchanged, to op.                     *)
(*                                                                         *)
(* Byte strings are sequences of byte values, text strings are TLA+        *)
(* strings, and an optional argument is <<>> (None) or <<v>>.              *)
(***************************************************************************)
EXTENDS Integers, Sequences, FiniteSets, TLC

VARIABLES
  args,           \* the arguments of the call
  mode,           \* "idle", "pb" or "op"
  static,         \* op: what the graph knows statically about audio and labels
  pc,             \* position inside the call
  limited_audio,  \* audio[:max_outputs]
  limited_labels, \* labels[:max_outputs], as bytes
  encoded_audio,  \* the encoder's outputs so far
  encoder_calls,  \* history: clip indices (0-based) handed to the encoder
  collections,    \* op: the summary nodes registered in the graph collections
  result,         \* outcome of the current call
  pb_result       \* outcome of the pb call that preceded the op call

vars == <<args, mode, static, pc, limited_audio, limited_labels,
          encoded_audio, encoder_calls, collections, result, pb_result>>

\* ------------------------------------------------------------------ bounds
MaxK == 2
MaxOut == 2

\* --------------------------------------------------------------- constants
\* tf.map_fn's default parallel_iterations when building a graph
ParallelIterations == 10
\* the rank audio must have
RequiredRank == 3

\* ------------------------------------------------------------------ values
None == <<>>
Some(v) == <<v>>
IsNone(o) == o = <<>>
Val(o) == o[1]

Min(a, b) == IF a <= b THEN a ELSE b
Max(a, b) == IF a >= b THEN a ELSE b

\* A clip is a [t, c] waveform, here one frame of one channel: its sample.
\* Sample 0 is silence; the encoder rejects the clip RejectedClip.
RejectedClip == <<9>>
Clips == {<<1>>, <<0>>, RejectedClip}

\* A label is a text string (code points) or a byte string.
TextLabel(cps) == [kind |-> "str", val |-> cps]
BytesLabel(bs) == [kind |-> "bytes", val |-> bs]
Labels == {TextLabel(<<233>>), BytesLabel(<<97>>)}

Ranks == {2, RequiredRank}
SampleRates == {0, 1}
Names == {"n"}
Encodings == {None, Some("wav"), Some("mp3")}
DisplayNames == {None, Some("d")}
Descriptions == {None, Some("md")}
Statics == {"none", "rank", "full"}

SeqsUpTo(S, n) == UNION {[1..k -> S] : k \in 0..n}

\* An audio array: its rank and its first-dimension slices.
Audios == [rank : Ranks, clips : SeqsUpTo(Clips, MaxK)]

\* audio.shape: k clips of one frame, one channel
Shape(audio) ==
  <<Len(audio.clips)>> \o [i \in 1..(audio.rank - 1) |-> 1]

Args ==
  [name : Names, audio : Audios, sample_rate : SampleRates,
   labels : {None} \cup {Some(l) : l \in SeqsUpTo(Labels, MaxK)},
   max_outputs : 0..MaxOut, encoding : Encodings,
   display_name : DisplayNames, description : Descriptions]

NoResult == [kind |-> "none"]

\* ----------------------------------------------------------------- helpers
\* the limit max_outputs is not applied
Slice_noLimit(s, m) == s

\* Python's s[:m]
Slice(s, m) ==
  IF m >= 0 THEN SubSeq(s, 1, Min(Len(s), m))
  ELSE SubSeq(s, 1, Max(0, Len(s) + m))

\* UTF-8 of one code point (one or two bytes are enough here)
Utf8(cp) ==
  IF cp < 128 THEN <<cp>> ELSE <<192 + (cp \div 64), 128 + (cp % 64)>>

RECURSIVE Utf8All(_)
Utf8All(cps) ==
  IF cps = <<>> THEN <<>> ELSE Utf8(Head(cps)) \o Utf8All(Tail(cps))

\* tf.compat.as_bytes: text is encoded as UTF-8, bytes pass through
as_bytes(label) ==
  IF label.kind = "str" THEN Utf8All(label.val) ELSE label.val

\* The encoder collaborator (util.encode_wav, tf.contrib.ffmpeg.encode_audio)
EncoderRejects(clip, sample_rate) ==
  sample_rate <= 0 \/ clip = RejectedClip

\* a WAV file: a header that carries the sample rate, then the samples
EncodeWav(clip, sample_rate) == <<82, sample_rate>> \o clip

EncoderError(clip, sample_rate) ==
  [kind |-> "error", type |-> "EncoderError", info |-> <<clip, sample_rate>>]

ShapeError(audio) ==
  [kind |-> "error", type |-> "ShapeError", info |-> Shape(audio)]

UnknownEncoding(encoding) ==
  [kind |-> "error", type |-> "UnknownEncoding", info |-> encoding]

LengthMismatch(n_audio, n_labels) ==
  [kind |-> "error", type |-> "LengthMismatch", info |-> <<n_audio, n_labels>>]

\* any encoding falls back to WAV
ResolveEncoding_fallback(encoding) == "wav"

\* encoding = 'wav' if encoding is None
ResolveEncoding(encoding) ==
  IF IsNone(encoding) THEN "wav" ELSE Val(encoding)

\* the display_name argument is ignored
ResolveDisplayName_ignored(display_name, name) == name

\* display_name = name if display_name is None
ResolveDisplayName(display_name, name) ==
  IF IsNone(display_name) THEN name ELSE Val(display_name)

\* metadata.create_summary_metadata: an unset description serialises as ""
create_summary_metadata(display_name, description, encoding) ==
  [display_name |-> display_name,
   description |-> IF IsNone(description) THEN "" ELSE Val(description),
   encoding |-> encoding]

\* an element of a numpy array of dtype S: trailing NUL bytes are dropped
RECURSIVE np_bytes(_)
np_bytes(b) ==
  IF b # <<>> /\ b[Len(b)] = 0 THEN np_bytes(SubSeq(b, 1, Len(b) - 1)) ELSE b

\* np.array([encoded, labels]) is a [2, n] array only if both have n elements
NpIsRagged(encoded, labels) == Len(encoded) # Len(labels)

\* np.array([encoded, labels]).transpose(): row i is [encoded[i], labels[i]]
NpContent(encoded, labels) ==
  [i \in 1..Len(encoded) |-> <<np_bytes(encoded[i]), np_bytes(labels[i])>>]

\* the labels are not limited to max_outputs
PbLimitedLabels_noSlice(labels, max_outputs, n) ==
  IF IsNone(labels) THEN [i \in 1..n |-> <<>>]
  ELSE [i \in 1..Len(Val(labels)) |-> as_bytes(Val(labels)[i])]

\* missing labels are filled in with empty labels
PbLimitedLabels_pad(labels, max_outputs, n) ==
  IF IsNone(labels) THEN [i \in 1..n |-> <<>>]
  ELSE [i \in 1..n |->
          IF i <= Len(Val(labels)) THEN as_bytes(Val(labels)[i]) ELSE <<>>]

\* labels=None: [b''] * len(limited_audio); else as_bytes of labels[:max_outputs]
PbLimitedLabels(labels, max_outputs, n) ==
  IF IsNone(labels) THEN [i \in 1..n |-> <<>>]
  ELSE [i \in 1..Len(Slice(Val(labels), max_outputs)) |->
          as_bytes(Slice(Val(labels), max_outputs)[i])]

\* tag='%s/audio_summary' % name
PbTag(name) == <<name, "audio_summary">>

Record(tag, rows, metadata) ==
  [kind |-> "record", tag |-> tag, rows |-> rows, metadata |-> metadata]

\* -------------------------------------------------------------------- Init
Init ==
  /\ args \in Args
  /\ mode = "pb"
  /\ static = "full"
  /\ pc = "validate"
  /\ limited_audio = <<>>
  /\ limited_labels = <<>>
  /\ encoded_audio = <<>>
  /\ encoder_calls = <<>>
  /\ collections = {}
  /\ result = NoResult
  /\ pb_result = NoResult

\* ---------------------------------------------------------------------- pb
\* the encoding is checked before the rank, as op does
PbValidate_encodingFirst ==
  /\ mode = "pb" /\ pc = "validate"
  /\ IF ResolveEncoding(args.encoding) # "wav"
     THEN /\ result' = UnknownEncoding(ResolveEncoding(args.encoding))
          /\ pc' = "done"
     ELSE IF args.audio.rank # RequiredRank
     THEN /\ result' = ShapeError(args.audio)
          /\ pc' = "done"
     ELSE /\ result' = result
          /\ pc' = "slice"
  /\ UNCHANGED <<args, mode, static, limited_audio, limited_labels,
                 encoded_audio, encoder_calls, collections, pb_result>>

\* lines 169-180: the rank check, then the encoding check
PbValidate ==
  /\ mode = "pb" /\ pc = "validate"
  /\ IF args.audio.rank # RequiredRank
     THEN /\ result' = ShapeError(args.audio)
          /\ pc' = "done"
     ELSE IF ResolveEncoding(args.encoding) # "wav"
     THEN /\ result' = UnknownEncoding(ResolveEncoding(args.encoding))
          /\ pc' = "done"
     ELSE /\ result' = result
          /\ pc' = "slice"
  /\ UNCHANGED <<args, mode, static, limited_audio, limited_labels,
                 encoded_audio, encoder_calls, collections, pb_result>>

\* lines 182-187
PbSlice ==
  /\ mode = "pb" /\ pc = "slice"
  /\ limited_audio' = Slice(args.audio.clips, args.max_outputs)
  /\ limited_labels' =
       PbLimitedLabels(args.labels, args.max_outputs, Len(limited_audio'))
  /\ pc' = "encode"
  /\ UNCHANGED <<args, mode, static, encoded_audio, encoder_calls,
                 collections, result, pb_result>>

\* an encoder error is swallowed: the clip gets empty bytes
PbEncode_swallow ==
  /\ mode = "pb" /\ pc = "encode"
  /\ Len(encoded_audio) < Len(limited_audio)
  /\ LET i == Len(encoded_audio) + 1
         a == limited_audio[i]
     IN  /\ encoder_calls' = Append(encoder_calls, i - 1)
         /\ encoded_audio' =
              Append(encoded_audio,
                     IF EncoderRejects(a, args.sample_rate) THEN <<>>
                     ELSE EncodeWav(a, args.sample_rate))
  /\ UNCHANGED <<args, mode, static, pc, result, limited_audio,
                 limited_labels, collections, pb_result>>

\* line 189, one element of the list comprehension
PbEncode ==
  /\ mode = "pb" /\ pc = "encode"
  /\ Len(encoded_audio) < Len(limited_audio)
  /\ LET i == Len(encoded_audio) + 1
         a == limited_audio[i]
     IN  /\ encoder_calls' = Append(encoder_calls, i - 1)
         /\ IF EncoderRejects(a, args.sample_rate)
            THEN /\ result' = EncoderError(a, args.sample_rate)
                 /\ pc' = "done"
                 /\ UNCHANGED encoded_audio
            ELSE /\ encoded_audio' =
                      Append(encoded_audio, EncodeWav(a, args.sample_rate))
                 /\ UNCHANGED <<result, pc>>
  /\ UNCHANGED <<args, mode, static, limited_audio, limited_labels,
                 collections, pb_result>>

\* lines 190-204
PbAssemble ==
  /\ mode = "pb" /\ pc = "encode"
  /\ Len(encoded_audio) = Len(limited_audio)
  /\ result' =
       IF NpIsRagged(encoded_audio, limited_labels)
       THEN LengthMismatch(Len(encoded_audio), Len(limited_labels))
       ELSE Record(PbTag(args.name),
                   NpContent(encoded_audio, limited_labels),
                   create_summary_metadata(
                     ResolveDisplayName(args.display_name, args.name),
                     args.description, "WAV"))
  /\ pc' = "done"
  /\ UNCHANGED <<args, mode, static, limited_audio, limited_labels,
                 encoded_audio, encoder_calls, collections, pb_result>>

\* ---------------------------------------------------------------------- op
\* with tf.name_scope(name): tensor_summary(name='audio_summary') on a graph
\* that holds no other node of that name
OpTag(name) == <<name, "audio_summary">>

\* the rank is never checked while the graph is built
StaticRankFails_never(audio, known) == FALSE

\* tf.assert_rank(audio, 3) while the graph is built: a statically known
\* rank is checked at once, an unknown one is left to the assert op
StaticRankFails(audio, known) ==
  known \in {"rank", "full"} /\ audio.rank # RequiredRank

\* labels[:max_outputs] as a string tensor
OpLimitedLabels(labels, max_outputs, n) ==
  IF IsNone(labels) THEN [i \in 1..n |-> <<>>]
  ELSE [i \in 1..Len(Slice(Val(labels), max_outputs)) |->
          as_bytes(Slice(Val(labels), max_outputs)[i])]

\* tf.stack([encoded_audio, limited_labels]) while the graph is built: shape
\* inference rejects two vectors whose known lengths differ
StaticStackFails(audio, labels, max_outputs, known) ==
  /\ known = "full"
  /\ ~IsNone(labels)
  /\ Len(Slice(audio.clips, max_outputs))
       # Len(Slice(Val(labels), max_outputs))

\* tf.transpose(tf.stack([encoded, labels])): row i is [encoded[i], labels[i]]
OpContent(encoded, labels) ==
  [i \in 1..Len(encoded) |-> <<Val(encoded[i]), labels[i]>>]

\* the pb call has returned or raised; the same arguments go to op
CallOp ==
  /\ mode = "pb" /\ pc = "done"
  /\ \E s \in Statics : static' = s
  /\ mode' = "op"
  /\ pc' = "construct"
  /\ pb_result' = result
  /\ result' = NoResult
  /\ limited_audio' = <<>>
  /\ limited_labels' = <<>>
  /\ encoded_audio' = <<>>
  /\ encoder_calls' = <<>>
  /\ UNCHANGED <<args, collections>>

\* lines 87-118: building the graph
OpConstruct ==
  /\ mode = "op" /\ pc = "construct"
  /\ IF ResolveEncoding(args.encoding) # "wav"
     THEN /\ result' = UnknownEncoding(ResolveEncoding(args.encoding))
          /\ pc' = "done"
          /\ UNCHANGED collections
     ELSE IF StaticRankFails(args.audio, static)
     THEN /\ result' = ShapeError(args.audio)
          /\ pc' = "done"
          /\ UNCHANGED collections
     ELSE IF StaticStackFails(args.audio, args.labels, args.max_outputs, static)
     THEN /\ result' =
               LengthMismatch(
                 Len(Slice(args.audio.clips, args.max_outputs)),
                 Len(Slice(Val(args.labels), args.max_outputs)))
          /\ pc' = "done"
          /\ UNCHANGED collections
     ELSE /\ collections' = collections \cup {OpTag(args.name)}
          /\ pc' = "built"
          /\ UNCHANGED result
  /\ UNCHANGED <<args, mode, static, limited_audio, limited_labels,
                 encoded_audio, encoder_calls, pb_result>>

\* evaluation, line 101: the assert op runs before everything it guards
RunAssertRank ==
  /\ mode = "op" /\ pc = "built"
  /\ IF args.audio.rank # RequiredRank
     THEN /\ result' = ShapeError(args.audio)
          /\ pc' = "done"
     ELSE /\ pc' = "slice"
          /\ UNCHANGED result
  /\ UNCHANGED <<args, mode, static, limited_audio, limited_labels,
                 encoded_audio, encoder_calls, collections, pb_result>>

\* evaluation, lines 102 and 106-109
RunSlice ==
  /\ mode = "op" /\ pc = "slice"
  /\ limited_audio' = Slice(args.audio.clips, args.max_outputs)
  /\ limited_labels' =
       OpLimitedLabels(args.labels, args.max_outputs, Len(limited_audio'))
  /\ encoded_audio' = [i \in 1..Len(limited_audio') |-> None]
  /\ pc' = "map"
  /\ UNCHANGED <<args, mode, static, encoder_calls, collections, result,
                 pb_result>>

\* the iterations tf.map_fn may run next
Runnable ==
  {i \in 1..Len(encoded_audio) :
     /\ IsNone(encoded_audio[i])
     /\ \A j \in 1..Len(encoded_audio) :
          IsNone(encoded_audio[j]) => i < j + ParallelIterations}

\* evaluation, lines 103-105: one iteration of tf.map_fn
RunEncode ==
  /\ mode = "op" /\ pc = "map"
  /\ \E i \in Runnable :
       LET a == limited_audio[i]
       IN  /\ encoder_calls' = Append(encoder_calls, i - 1)
           /\ IF EncoderRejects(a, args.sample_rate)
              THEN /\ result' = EncoderError(a, args.sample_rate)
                   /\ pc' = "done"
                   /\ UNCHANGED encoded_audio
              ELSE /\ encoded_audio' =
                        [encoded_audio EXCEPT
                           ![i] = Some(EncodeWav(a, args.sample_rate))]
                   /\ UNCHANGED <<result, pc>>
  /\ UNCHANGED <<args, mode, static, limited_audio, limited_labels,
                 collections, pb_result>>

\* evaluation, lines 110-118
RunAssemble ==
  /\ mode = "op" /\ pc = "map"
  /\ \A i \in 1..Len(encoded_audio) : ~IsNone(encoded_audio[i])
  /\ result' =
       IF Len(encoded_audio) # Len(limited_labels)
       THEN LengthMismatch(Len(encoded_audio), Len(limited_labels))
       ELSE Record(OpTag(args.name),
                   OpContent(encoded_audio, limited_labels),
                   create_summary_metadata(
                     ResolveDisplayName(args.display_name, args.name),
                     args.description, "WAV"))
  /\ pc' = "done"
  /\ UNCHANGED <<args, mode, static, limited_audio, limited_labels,
                 encoded_audio, encoder_calls, collections, pb_result>>

\* -------------------------------------------------------------------- Next
Next ==
  \/ PbValidate
  \/ PbSlice
  \/ PbEncode
  \/ PbAssemble
  \/ CallOp
  \/ OpConstruct
  \/ RunAssertRank
  \/ RunSlice
  \/ RunEncode
  \/ RunAssemble

Spec == Init /\ [][Next]_vars

\* ------------------------------------------------------------------ claims
K == Len(args.audio.clips)
N == Min(K, args.max_outputs)
Done == pc = "done"
IsRecord(r) == r.kind = "record"
IsError(r, t) == r.kind = "error" /\ r.type = t
Failed(r) == r.kind = "error"
EncodingOk == args.encoding \in {None, Some("wav")}
RankOk == args.audio.rank = RequiredRank
\* the encoder accepts every clip the call hands to it
EncoderOk ==
  \A i \in 1..N : ~EncoderRejects(args.audio.clips[i], args.sample_rate)
ValidCall ==
  /\ RankOk /\ EncodingOk /\ args.max_outputs > 0
  /\ IsNone(args.labels) \/ Len(Val(args.labels)) = K
\* labels are given and there are fewer of them than rows
FewerLabels == ~IsNone(args.labels) /\ Len(Val(args.labels)) < N
NodeRegistered == collections # {}
LastCall == encoder_calls[Len(encoder_calls)]
\* the encoder has rejected the clip of its latest call
EncoderFailed ==
  /\ encoder_calls # <<>>
  /\ EncoderRejects(args.audio.clips[LastCall + 1], args.sample_rate)
Increasing(s) == \A i \in 1..Len(s) : s[i] = i - 1
OncePerClip(s, n) ==
  /\ Len(s) = n
  /\ \A c \in 0..(n - 1) : \E i \in 1..Len(s) : s[i] = c

\* C1: a valid call whose clips the encoder accepts ends, in pb and in op once
\* evaluated, with a record of exactly min(K, max_outputs) rows; a valid call
\* never ends with a record of another size, and K > max_outputs is no error.
C1_RowCount ==
  (Done /\ ValidCall) =>
    /\ EncoderOk => IsRecord(result)
    /\ IsRecord(result) => Len(result.rows) = N

C1_Witness ==
  /\ Done /\ ValidCall /\ mode = "op" /\ K > args.max_outputs
  /\ IsRecord(result) /\ IsRecord(pb_result)
  /\ Len(result.rows) = args.max_outputs

\* C2 (as claimed): in every record of a valid call, row i holds the encoder's
\* output for clip i and the label labels[i], or the empty label when labels
\* are absent.
C2_RowsAsClaimed ==
  (Done /\ ValidCall /\ IsRecord(result)) =>
    \A i \in 1..Len(result.rows) :
      /\ result.rows[i][1] = EncodeWav(args.audio.clips[i], args.sample_rate)
      /\ result.rows[i][2] =
           IF IsNone(args.labels) THEN <<>> ELSE as_bytes(Val(args.labels)[i])

C5_AsClaimed ==
  (Done /\ IsRecord(result)) =>
    /\ OncePerClip(encoder_calls, N)
    /\ Increasing(encoder_calls)

\* C5 (amended): a call that ended with a record has called the encoder
\* exactly once for each clip with index < min(K, max_outputs) and never for
\* another clip; pb makes these calls in increasing index order (the order of
\* op's tf.map_fn iterations is not fixed).
C5_EncoderCalls ==
  /\ \A i \in 1..Len(encoder_calls) : encoder_calls[i] < N
  /\ (Done /\ IsRecord(result)) =>
       /\ OncePerClip(encoder_calls, N)
       /\ mode = "pb" => Increasing(encoder_calls)

C5_Witness ==
  /\ Done /\ IsRecord(result) /\ mode = "pb"
  /\ K > args.max_outputs /\ args.max_outputs = 1
  /\ encoder_calls = <<0>>

\* C6 (as claimed): op, once evaluated, ends as the pb call on the same
\* arguments did: with the same record, or with an error of the same kind.
C6_PbAsOp ==
  (mode = "op" /\ Done) =>
    \/ IsRecord(pb_result) /\ result = pb_result
    \/ Failed(pb_result) /\ Failed(result) /\ result.type = pb_result.type

\* C7 (as claimed): with fewer labels than rows pb fails, and the evaluation
\* of op's node yields min(K, max_outputs) rows whose missing labels are empty.
C7_AsClaimed ==
  (Done /\ FewerLabels /\ RankOk /\ EncodingOk /\ EncoderOk) =>
    /\ mode = "pb" => Failed(result)
    /\ (mode = "op" /\ NodeRegistered) =>
         /\ IsRecord(result)
         /\ Len(result.rows) = N
         /\ \A i \in (Len(Val(args.labels)) + 1)..N : result.rows[i][2] = <<>>

\* C7 (amended): with fewer labels than rows both pb and op fail without a
\* record: pb after encoding, op while the graph is built when the lengths
\* are statically known and otherwise when it is evaluated.
C7_FewerLabelsFail ==
  FewerLabels =>
    /\ ~IsRecord(result)
    /\ Done => Failed(result)
    /\ (Done /\ RankOk /\ EncodingOk /\ EncoderOk) =>
         /\ result = LengthMismatch(N, Len(Val(args.labels)))
         /\ mode = "op" => (NodeRegistered <=> static # "full")

C7_Witness ==
  /\ Done /\ FewerLabels /\ mode = "op" /\ static = "none"
  /\ IsError(result, "LengthMismatch")
  /\ IsError(pb_result, "LengthMismatch")
  /\ Len(encoder_calls) = N

\* C8: the metadata of every record has the display_name argument, or name
\* when it is omitted, the description argument, or "" when it is omitted,
\* and the encoding WAV.
C8_Metadata ==
  IsRecord(result) =>
    /\ result.metadata.display_name =
         IF IsNone(args.display_name) THEN args.name
         ELSE Val(args.display_name)
    /\ result.metadata.description =
         IF IsNone(args.description) THEN "" ELSE Val(args.description)
    /\ result.metadata.encoding = "WAV"

C8_Witness ==
  /\ IsRecord(result) /\ mode = "op"
  /\ IsNone(args.display_name) /\ IsNone(args.description)
  /\ result.metadata.display_name = args.name
  /\ result.metadata.description = ""

\* C9 (as claimed): building the graph over audio whose rank is not 3, with a
\* supported encoding, succeeds: the rank is checked only at evaluation.
C9_AsClaimed ==
  (mode = "op" /\ pc # "construct" /\ EncodingOk /\ ~RankOk) => NodeRegistered

\* C9 (amended): op rejects an unsupported encoding while the graph is built
\* (no node is registered, nothing is encoded).  With a supported encoding
\* and audio whose rank is not 3, the graph is built and the ShapeError
\* surfaces at evaluation, before any clip is encoded, when the rank is
\* statically unknown; when the rank is statically known, building the graph
\* fails with the ShapeError and no node is registered.
C9_ValidationTimes ==
  mode = "op" =>
    /\ ~EncodingOk =>
         /\ ~NodeRegistered
         /\ encoder_calls = <<>>
         /\ Done => IsError(result, "UnknownEncoding")
    /\ (EncodingOk /\ ~RankOk) =>
         /\ encoder_calls = <<>>
         /\ pc \in {"construct", "built", "done"}
         /\ Done => (IsError(result, "ShapeError") /\ result.info[1] = K)
         /\ pc # "construct" => (NodeRegistered <=> static = "none")

C9_Witness ==
  /\ mode = "op" /\ Done /\ EncodingOk /\ ~RankOk /\ static = "none"
  /\ NodeRegistered
  /\ IsError(result, "ShapeError")

\* C10 (as claimed): when the encoder rejects clip i the call ends with the
\* encoder's error, and no clip after i has been handed to the encoder.
C10_AsClaimed ==
  EncoderFailed =>
    /\ Done
    /\ result = EncoderError(args.audio.clips[LastCall + 1], args.sample_rate)
    /\ \A j \in 1..Len(encoder_calls) : encoder_calls[j] <= LastCall

\* C10 (amended): when the encoder rejects clip i the call ends at once with
\* the encoder's own error and without a record, and an encoder error is the
\* outcome only after an encoder call (the sample rate is not checked before);
\* in pb the clips 0..i and no others have been handed to the encoder (op's
\* tf.map_fn may have encoded later clips already).
C10_EncoderError ==
  /\ EncoderFailed =>
       /\ Done
       /\ result =
            EncoderError(args.audio.clips[LastCall + 1], args.sample_rate)
       /\ mode = "pb" => Increasing(encoder_calls)
  /\ IsError(result, "EncoderError") => EncoderFailed
  /\ (Done /\ ValidCall /\ K = 0) => IsRecord(result)

C10_Witness ==
  /\ mode = "pb" /\ EncoderFailed /\ Done
  /\ args.sample_rate > 0
  /\ encoder_calls = <<0, 1>>
  /\ result = EncoderError(RejectedClip, args.sample_rate)

====
